---- MODULE Spec2Model ----
(***************************************************************************)
(* lmdeploy/pytorch/model_inputs.py as a state machine.                    *)
(*                                                                         *)
(* Tensors are modelled by value: a 1-D tensor is a sequence of integers,  *)
(* a 2-D tensor a sequence of rows.  The token grid input_ids, whose rank  *)
(* update() inspects, is a record [dim, v] with v always a sequence of     *)
(* rows (a 1-D tensor of n tokens is [dim |-> 1, v |-> <<its n tokens>>]). *)
(* An optional value (None or x) is <<>> or <<x>>.                         *)
(***************************************************************************)
EXTENDS Integers, Sequences, FiniteSets

VARIABLES
    inputs,       \* the ModelInputs instance of the step (mutated by update)
    inputs0,      \* history: the instance as the scheduler built it
    nupdates,     \* history: number of update() calls that returned
    out,          \* what the last call did: its arguments and its result
    current_ctx,  \* StepContextManager._current_ctx (None or a context)
    scopes        \* the open `with manager.context(c)` scopes, innermost last

vars == <<inputs, inputs0, nupdates, out, current_ctx, scopes>>

\* ------------------------------------------------------------------ bounds
MaxBatch == 2
MaxSeq == 2
MaxTokens == 5
MaxHist == 2
MaxIgnored == 1
MaxUpdates == 2
MaxSplit == 4
MaxBlock == 2
MaxWindow == 1
NumTokens == 2
MaxAdapters == 2
MaxTargets == 2
MaxRank == 2
MaxVisHist == 1
MaxVisSeq == 2
MaxEmbPos == 4
MaxEmb == 2
NumCtx == 3
MaxDepth == 4

\* ----------------------------------------------------------------- helpers
None == <<>>
Some(x) == <<x>>

Max(a, b) == IF a >= b THEN a ELSE b
Min(a, b) == IF a <= b THEN a ELSE b

RECURSIVE SumSeq(_)
SumSeq(s) == IF s = <<>> THEN 0 ELSE s[1] + SumSeq(Tail(s))

RECURSIVE MaxSeqOf(_)
MaxSeqOf(s) == IF Len(s) = 1 THEN s[1] ELSE Max(s[1], MaxSeqOf(Tail(s)))

RECURSIVE Cat(_)
Cat(ss) == IF ss = <<>> THEN <<>> ELSE ss[1] \o Cat(Tail(ss))

\* torch.arange(n)
Arange(n) == [i \in 1..n |-> i - 1]

\* tensor.cumsum along a 1-D tensor
CumSum(s) == [i \in 1..Len(s) |-> SumSeq(SubSeq(s, 1, i))]

\* Python's s[a:b] on a sequence (negative indices count from the end,
\* out-of-range indices are clamped)
PyIndex(n, i) == IF i < 0 THEN Max(n + i, 0) ELSE Min(i, n)
PySlice(s, a, b) == SubSeq(s, PyIndex(Len(s), a) + 1, PyIndex(Len(s), b))

\* tensor.numel() of a token grid
Numel(t) == SumSeq([i \in 1..Len(t.v) |-> Len(t.v[i])])

\* t[:, a:b] of a 2-D token grid
ColSlice(t, a, b) == [dim |-> 2, v |-> [i \in 1..Len(t.v) |-> PySlice(t.v[i], a, b)]]

\* ------------------------------------------------------------- ModelInputs
ModelInputs(ids, seq, hist, blocks, maxq, maxh, dec, ign, lai, ada, meta, vis) ==
    [input_ids |-> ids, seq_length |-> seq, history_lengths |-> hist,
     block_offsets |-> blocks, max_q_seq_length |-> maxq,
     max_history_length |-> maxh, is_decoding |-> dec,
     num_ignored_history |-> ign, local_adapter_ids |-> lai,
     adapter_info |-> ada, meta |-> meta, vision_inputs |-> vis]

\* Fault for C4: an update that forgets to advance history_lengths
UpdateNoBump(self, input_ids) ==
    IF ~self.is_decoding
    THEN [raised |-> TRUE, self |-> self]
    ELSE [raised |-> FALSE,
          self |-> [self EXCEPT
              !.max_history_length = @ + 1,
              !.input_ids = IF input_ids.dim = 1
                            THEN [dim |-> 2, v |-> input_ids.v]
                            ELSE input_ids]]

\* ModelInputs.update: the assertion, then the three assignments.  The result
\* is [raised, self]: self is the instance after the call.
ModelInputsUpdate(self, input_ids) ==
    IF ~self.is_decoding
    THEN [raised |-> TRUE, self |-> self]
    ELSE [raised |-> FALSE,
          self |-> [self EXCEPT
              !.history_lengths = [i \in 1..Len(@) |-> @[i] + 1],
              !.max_history_length = @ + 1,
              !.input_ids = IF input_ids.dim = 1
                            THEN [dim |-> 2, v |-> input_ids.v]
                            ELSE input_ids]]

\* The ModelInputs split() builds for the window [start, end)
SplitChunk(self, start, end) ==
    ModelInputs(ColSlice(self.input_ids, start, end),
                <<end - start>>,
                [i \in 1..Len(self.history_lengths) |-> self.history_lengths[i] + start],
                self.block_offsets,
                end - start,
                self.max_history_length + start,
                self.is_decoding,
                self.num_ignored_history,
                self.local_adapter_ids,
                self.adapter_info,
                self.meta,
                self.vision_inputs)

\* range(0, max_seq_len, split_size) as the sequence of its values
RangeStep(n, step) == [k \in 1..((n + step - 1) \div step) |-> (k - 1) * step]

\* Fault for C2: windows that start one token early, so that consecutive
\* chunks overlap
SplitOverlapping(self, split_size, block_size) ==
    IF Len(self.seq_length) # 1 \/ split_size % block_size # 0
    THEN [raised |-> TRUE, is_list |-> FALSE, items |-> <<>>]
    ELSE IF Numel(self.input_ids) < split_size
    THEN [raised |-> FALSE, is_list |-> FALSE, items |-> <<self>>]
    ELSE LET max_seq_len == self.seq_length[1]
             starts == RangeStep(max_seq_len, split_size)
         IN [raised |-> FALSE, is_list |-> TRUE,
             items |-> [k \in 1..Len(starts) |->
                 SplitChunk(self, Max(starts[k] - 1, 0),
                            Min(max_seq_len, starts[k] + split_size))]]

\* ModelInputs.split.  The result is [raised, is_list, items]: a failed
\* assertion; the instance itself (`return self`, not a list); or the list
\* of chunks.  num_blocks, overlap, block_start and block_end are computed
\* by the code and never used, so they do not appear.
ModelInputsSplit(self, split_size, block_size) ==
    IF Len(self.seq_length) # 1 \/ split_size % block_size # 0
    THEN [raised |-> TRUE, is_list |-> FALSE, items |-> <<>>]
    ELSE IF Numel(self.input_ids) < split_size
    THEN [raised |-> FALSE, is_list |-> FALSE, items |-> <<self>>]
    ELSE LET max_seq_len == self.seq_length[1]
             starts == RangeStep(max_seq_len, split_size)
         IN [raised |-> FALSE, is_list |-> TRUE,
             items |-> [k \in 1..Len(starts) |->
                 SplitChunk(self, starts[k],
                            Min(max_seq_len, starts[k] + split_size))]]

\* -------------------------------------------------------------- AdapterInfo
\* A SchedulerAdapter as from_adapters reads it: one rank and one scaling per
\* target module, the rank-offset row, the module names and max_rank.
SchedulerAdapter(rank, scaling, rank_offset, target_modules, max_rank) ==
    [rank |-> rank, scaling |-> scaling, rank_offset |-> rank_offset,
     target_modules |-> target_modules, max_rank |-> max_rank]

AdapterInfo(ranks, scalings, rank_offsets, target_modules, max_rank_per_target, max_rank) ==
    [ranks |-> ranks, scalings |-> scalings, rank_offsets |-> rank_offsets,
     target_modules |-> target_modules,
     max_rank_per_target |-> max_rank_per_target, max_rank |-> max_rank]

\* AdapterInfo.from_adapters: None for no adapter, else the stacked tables
FromAdapters(adapters) ==
    IF Len(adapters) = 0 THEN None
    ELSE LET ranks == [a \in 1..Len(adapters) |-> adapters[a].rank]
         IN Some(AdapterInfo(
                ranks,
                [a \in 1..Len(adapters) |-> adapters[a].scaling],
                [a \in 1..Len(adapters) |-> adapters[a].rank_offset],
                adapters[1].target_modules,
                [t \in 1..Len(ranks[1]) |->
                    MaxSeqOf([a \in 1..Len(ranks) |-> ranks[a][t]])],
                adapters[1].max_rank))

\* Fault for C9: rank-offset windows as wide as the target's own largest
\* rank instead of the global max_rank
TargetInfoOwnRank(self, idx) ==
    LET own == self.max_rank_per_target[idx + 1]
    IN AdapterInfo(
           [a \in 1..Len(self.ranks) |-> self.ranks[a][idx + 1]],
           [a \in 1..Len(self.scalings) |-> self.scalings[a][idx + 1]],
           [a \in 1..Len(self.rank_offsets) |->
               PySlice(self.rank_offsets[a], idx * own, idx * own + own)],
           <<self.target_modules[idx + 1]>>,
           <<own>>,
           own)

\* The AdapterInfo split_by_targets builds for target index idx (0-based),
\* its rank-offset window being max_rank wide, with max_rank the global one
TargetInfo(self, idx) ==
    LET max_rank == self.max_rank
        r_off_start == idx * max_rank
        r_off_end == r_off_start + max_rank
    IN AdapterInfo(
           [a \in 1..Len(self.ranks) |-> self.ranks[a][idx + 1]],
           [a \in 1..Len(self.scalings) |-> self.scalings[a][idx + 1]],
           [a \in 1..Len(self.rank_offsets) |->
               PySlice(self.rank_offsets[a], r_off_start, r_off_end)],
           <<self.target_modules[idx + 1]>>,
           <<self.max_rank_per_target[idx + 1]>>,
           self.max_rank_per_target[idx + 1])

\* AdapterInfo.split_by_targets: the dict keyed by module name; a name that
\* occurs twice keeps the entry of its last index, as a dict assignment does
SplitByTargets(self) ==
    LET T == Len(self.target_modules)
        names == {self.target_modules[i] : i \in 1..T}
        last(n) == CHOOSE i \in 1..T :
                       /\ self.target_modules[i] = n
                       /\ \A j \in (i + 1)..T : self.target_modules[j] # n
    IN [n \in names |-> TargetInfo(self, last(n) - 1)]

\* -------------------------------------------------------- VisionModelInputs
VisionModelInputs(history_lengths, embeddings, ranges, indexing) ==
    [history_lengths |-> history_lengths,
     history_image_nums |-> None,
     history_image_token_lengths |-> None,
     input_embeddings |-> embeddings,
     input_embedding_ranges |-> ranges,
     input_embedding_indexing |-> indexing]

\* Fault for C8: a start offset that is not clipped to the embedding's start
SlotSlicesUnclipped(his_len, seq_len, embeddings, emb_ranges) ==
    Cat([k \in 1..Min(Len(embeddings), Len(emb_ranges)) |->
        LET emb_start == emb_ranges[k][1]
            emb_end == emb_ranges[k][2]
            start == his_len - emb_start
            end == Min(emb_end, his_len + seq_len) - emb_start
        IN IF 0 <= start /\ start < end
           THEN <<PySlice(embeddings[k], start, end)>>
           ELSE <<>>])

\* The slices the inner loop of get_inputs appends for one slot
SlotSlices(his_len, seq_len, embeddings, emb_ranges) ==
    Cat([k \in 1..Min(Len(embeddings), Len(emb_ranges)) |->
        LET emb_start == emb_ranges[k][1]
            emb_end == emb_ranges[k][2]
            start == Max(emb_start, his_len) - emb_start
            end == Min(emb_end, his_len + seq_len) - emb_start
        IN IF 0 <= start /\ start < end
           THEN <<PySlice(embeddings[k], start, end)>>
           ELSE <<>>])

\* index_ranges[mask]: the 0-based positions at which a boolean mask is true
RECURSIVE TruePositions(_, _)
TruePositions(mask, p) ==
    IF p > Len(mask) THEN <<>>
    ELSE (IF mask[p] THEN <<p - 1>> ELSE <<>>) \o TruePositions(mask, p + 1)

\* VisionModelInputs.get_inputs: (input_embeddings, input_embedding_indexing)
GetInputs(self, history_lengths, seq_lengths) ==
    IF self.input_embeddings = None \/ Len(self.input_embeddings[1]) = 0
    THEN [input_embeddings |-> None, input_embedding_indexing |-> None]
    ELSE LET embs == self.input_embeddings[1]
             n == Min(Min(Len(history_lengths), Len(seq_lengths)),
                      Min(Len(embs), Len(self.input_embedding_ranges)))
             input_embedding_li ==
                 Cat([i \in 1..n |->
                     SlotSlices(history_lengths[i], seq_lengths[i], embs[i],
                                self.input_embedding_ranges[i])])
         IN IF Len(input_embedding_li) = 0
            THEN [input_embeddings |-> None, input_embedding_indexing |-> None]
            ELSE LET starts == [i \in 1..Len(history_lengths) |->
                                   history_lengths[i] - self.history_lengths[i]]
                     ends == [i \in 1..Len(starts) |-> starts[i] + seq_lengths[i]]
                     m == Min(Len(self.input_embedding_indexing), Len(starts))
                     mask == Cat([i \in 1..m |->
                                 PySlice(self.input_embedding_indexing[i],
                                         starts[i], ends[i])])
                 IN [input_embeddings |-> Some(Cat(input_embedding_li)),
                     input_embedding_indexing |-> Some(TruePositions(mask, 1))]

\* -------------------------------------------------------------- StepContext
\* q_start_loc of StepContext.new
QStartLoc(inputs_) ==
    IF inputs_.is_decoding
    THEN Arange(Len(inputs_.seq_length))
    ELSE LET c == CumSum(inputs_.seq_length)
         IN [i \in 1..Len(c) |-> c[i] - inputs_.seq_length[i]]

\* attention_mask of StepContext.new, [B, 1] or [B, max_q_seq_length]
AttentionMask(inputs_) ==
    IF inputs_.is_decoding
    THEN [i \in 1..Len(inputs_.seq_length) |-> <<1>>]
    ELSE LET mask_range == Arange(inputs_.max_q_seq_length)
         IN [i \in 1..Len(inputs_.seq_length) |->
                [j \in 1..Len(mask_range) |->
                    IF mask_range[j] < inputs_.seq_length[i] THEN 1 ELSE 0]]

\* Fault for C6: decode positions one past the next position
PositionIds2dPastNext(inputs_) ==
    IF inputs_.is_decoding
    THEN [i \in 1..Len(inputs_.history_lengths) |->
             <<inputs_.history_lengths[i] + inputs_.seq_length[i]>>]
    ELSE LET attention_mask == AttentionMask(inputs_)
         IN [i \in 1..Len(attention_mask) |->
                LET c == CumSum(attention_mask[i])
                IN [j \in 1..Len(c) |-> c[j] - 1 + inputs_.history_lengths[i]]]

\* the 2-D position_ids of StepContext.new, before they are packed
PositionIds2d(inputs_) ==
    IF inputs_.is_decoding
    THEN [i \in 1..Len(inputs_.history_lengths) |-> <<inputs_.history_lengths[i]>>]
    ELSE LET attention_mask == AttentionMask(inputs_)
         IN [i \in 1..Len(attention_mask) |->
                LET c == CumSum(attention_mask[i])
                IN [j \in 1..Len(c) |-> c[j] - 1 + inputs_.history_lengths[i]]]

\* Fault for C5: a packing that flattens the padded grid in every case
GetPositionIds1dFlatten(position_ids, seq_length) ==
    Cat(position_ids)

\* StepContext.get_position_ids_1d
GetPositionIds1d(position_ids, seq_length) ==
    IF Len(position_ids) = 1 \/ Len(position_ids[1]) = 1
    THEN Cat(position_ids)
    ELSE Cat([i \in 1..Min(Len(position_ids), Len(seq_length)) |->
                 PySlice(position_ids[i], 0, seq_length[i])])

\* getattr(cache_config, 'window_size', 0)
WindowSize(cache_config) ==
    IF cache_config = None THEN 0 ELSE cache_config[1].window_size

\* Fault for C7: a truncation that ignores window_size
KvSeqLengthAlwaysCut(inputs_, cache_config) ==
    [i \in 1..Len(inputs_.seq_length) |->
        inputs_.seq_length[i] + inputs_.history_lengths[i]
            - inputs_.num_ignored_history[i]]

\* kv_seq_length of StepContext.new: a tensor of its own, so that the
\* in-place subtraction leaves the input's tensors as they were
KvSeqLength(inputs_, cache_config) ==
    LET kv_seq_length == [i \in 1..Len(inputs_.seq_length) |->
                             inputs_.seq_length[i] + inputs_.history_lengths[i]]
    IN IF WindowSize(cache_config) > 0
       THEN [i \in 1..Len(kv_seq_length) |->
                kv_seq_length[i] - inputs_.num_ignored_history[i]]
       ELSE kv_seq_length

\* get_backend().update_step_context: the backend's hook, which adds what its
\* kernels need and keeps the fields it is given
UpdateStepContext(ctx) == ctx

\* StepContext.new.  The context's `inputs` field is a reference to the
\* instance held in the variable inputs, and _outputs starts empty; neither
\* is repeated in the record.
StepContextNew(inputs_, world_size, kv_caches, cache_config) ==
    LET vis == IF /\ inputs_.vision_inputs # None
                  /\ inputs_.vision_inputs[1].input_embeddings # None
               THEN GetInputs(inputs_.vision_inputs[1],
                              inputs_.history_lengths, inputs_.seq_length)
               ELSE [input_embeddings |-> None, input_embedding_indexing |-> None]
        position_ids == <<GetPositionIds1d(PositionIds2d(inputs_),
                                           inputs_.seq_length)>>
    IN UpdateStepContext(
        [block_offsets |-> inputs_.block_offsets,
         position_ids |-> position_ids,
         input_embeddings |-> vis.input_embeddings,
         input_embedding_indexing |-> vis.input_embedding_indexing,
         attention_mask |-> AttentionMask(inputs_),
         q_start_loc |-> QStartLoc(inputs_),
         history_lengths |-> inputs_.history_lengths,
         q_seq_length |-> inputs_.seq_length,
         kv_seq_length |-> KvSeqLength(inputs_, cache_config),
         max_q_seq_length |-> inputs_.max_q_seq_length,
         max_kv_seq_length |-> inputs_.max_q_seq_length + inputs_.max_history_length,
         kv_caches |-> kv_caches,
         is_decoding |-> inputs_.is_decoding,
         world_size |-> world_size,
         local_adapter_ids |-> inputs_.local_adapter_ids,
         adapter_params |-> IF inputs_.adapter_info # None
                            THEN Some(SplitByTargets(inputs_.adapter_info[1]))
                            ELSE None])

\* StepContextManager.build_context
BuildContext(inputs_, world_size, kv_caches, cache_config) ==
    StepContextNew(inputs_, world_size, kv_caches, cache_config)

\* ------------------------------------------------------------------ inputs
\* What the scheduler hands over: the packed token grid of a batch (row 1
\* holds every slot's new tokens, column j holding token j), and a block
\* table of two blocks per slot.
TokenGrid(n) == [dim |-> 2, v |-> <<[j \in 1..n |-> j]>>]
BlockTable(B) == [i \in 1..B |-> <<2 * i - 1, 2 * i>>]

\* The argument of update(): B new tokens as a 1-D tensor, as [1, B] or as
\* [B, 1]
NewTokens(B, t) == [i \in 1..B |-> ((t + i - 2) % NumTokens) + 1]
NewTokenGrids(B) ==
    UNION {{[dim |-> 1, v |-> <<NewTokens(B, t)>>],
            [dim |-> 2, v |-> <<NewTokens(B, t)>>],
            [dim |-> 2, v |-> [i \in 1..B |-> <<NewTokens(B, t)[i]>>]]}
           : t \in 1..NumTokens}

\* The cache configurations StepContext.new is called with
CacheConfigs == {None} \cup {Some([window_size |-> w]) : w \in 0..MaxWindow}

\* ----------------------------------------------------------------- actions
\* inputs.update(ids)
Update(ids) ==
    /\ inputs # None
    /\ nupdates < MaxUpdates
    /\ LET r == ModelInputsUpdate(inputs, ids)
       IN /\ inputs' = r.self
          /\ nupdates' = IF r.raised THEN nupdates ELSE nupdates + 1
          /\ out' = [op |-> "update", args |-> [input_ids |-> ids],
                     res |-> [raised |-> r.raised]]
    /\ UNCHANGED <<inputs0, current_ctx, scopes>>

\* inputs.split(split_size, block_size)
Split(split_size, block_size) ==
    /\ inputs # None
    /\ out' = [op |-> "split",
               args |-> [split_size |-> split_size, block_size |-> block_size],
               res |-> ModelInputsSplit(inputs, split_size, block_size)]
    /\ UNCHANGED <<inputs, inputs0, nupdates, current_ctx, scopes>>

\* StepContextManager.build_context(inputs, cache_config=cache_config), with
\* world_size and kv_caches at their defaults
New(cache_config) ==
    /\ inputs # None
    /\ out' = [op |-> "new", args |-> [cache_config |-> cache_config],
               res |-> BuildContext(inputs, 1, None, cache_config)]
    /\ UNCHANGED <<inputs, inputs0, nupdates, current_ctx, scopes>>

\* `with manager.context(c):` is entered: the generator runs to its yield
Enter(c) ==
    /\ Len(scopes) < MaxDepth
    /\ current_ctx' = Some(c)
    /\ scopes' = Append(scopes, c)
    /\ UNCHANGED <<inputs, inputs0, nupdates, out>>

\* The body of the innermost scope ends normally: the generator is resumed
\* and runs the statement after its yield
ExitNormal ==
    /\ scopes # <<>>
    /\ current_ctx' = None
    /\ scopes' = SubSeq(scopes, 1, Len(scopes) - 1)
    /\ UNCHANGED <<inputs, inputs0, nupdates, out>>

\* The body of the innermost scope raises: the exception is thrown into the
\* generator at its yield, which no try statement encloses, so the generator
\* ends there and the statement after the yield never runs
ExitFail ==
    /\ scopes # <<>>
    /\ current_ctx' = current_ctx
    /\ scopes' = SubSeq(scopes, 1, Len(scopes) - 1)
    /\ UNCHANGED <<inputs, inputs0, nupdates, out>>

\* StepContextManager.current_context()
CurrentContext == current_ctx

\* --------------------------------------------------------- initial states
NoCall == [op |-> "init", args |-> <<>>, res |-> <<>>]

\* A batch as the scheduler builds it (section 3 of the design): B slots,
\* seq_length >= 1 and history_lengths >= 0 per slot, max_q_seq_length and
\* max_history_length their maxima, is_decoding only when every slot has one
\* new token, num_ignored_history at most the slot's history.  A single slot
\* may carry a long prefill of up to MaxTokens tokens.
SchedulerBatch(seq, hist, dec, g, meta, lai, ada, vis) ==
    ModelInputs(TokenGrid(SumSeq(seq)), seq, hist, BlockTable(Len(seq)),
                MaxSeqOf(seq), MaxSeqOf(hist), dec,
                [i \in 1..Len(hist) |-> Min(g, hist[i])],
                lai, ada, meta, vis)

InitIdle ==
    /\ nupdates = 0
    /\ out = NoCall
    /\ current_ctx = None
    /\ scopes = <<>>

InitInputs ==
    /\ \E B \in 1..MaxBatch :
       \E seq \in [1..B -> 1..(IF B = 1 THEN MaxTokens ELSE MaxSeq)],
          hist \in [1..B -> 0..MaxHist],
          dec \in BOOLEAN, g \in 0..MaxIgnored :
           /\ dec => \A i \in 1..B : seq[i] = 1
           /\ inputs = SchedulerBatch(seq, hist, dec, g, Some("session"), None, None, None)
    /\ inputs0 = inputs
    /\ InitIdle

\* Batches that carry adapters: every slot decodes with adapter 0 of the
\* active set, which from_adapters packs.  The scheduler's adapters share
\* target_modules and max_rank; scalings and rank offsets are told apart by
\* adapter and column.
TargetNames == <<"q_proj", "k_proj", "v_proj", "o_proj", "gate_proj">>

AdapterSets ==
    {<<>>} \cup UNION {
        {[a \in 1..A |->
            SchedulerAdapter(ranks[a],
                             [t \in 1..T |-> 10 * a + t],
                             [c \in 1..(T * r) |-> 100 * a + c - 1],
                             SubSeq(TargetNames, 1, T), r)] :
            ranks \in [1..A -> [1..T -> 1..r]]}
        : A \in 1..MaxAdapters, T \in 1..MaxTargets, r \in 1..MaxRank}

InitAdapter ==
    /\ \E adapters \in AdapterSets, B \in 1..MaxBatch :
           inputs = SchedulerBatch([i \in 1..B |-> 1], [i \in 1..B |-> 0], TRUE, 0,
                                   None,
                                   IF adapters = <<>> THEN None
                                   ELSE Some([i \in 1..B |-> 0]),
                                   FromAdapters(adapters), None)
    /\ inputs0 = inputs
    /\ InitIdle

\* Batches that carry vision embeddings.  Each slot has a list of embeddings
\* with their token ranges [start, end), in order and disjoint, an embedding
\* having one row per token of its range; row r of embedding k of slot i is
\* <<i, k, r>>.  The indexing mask of a slot marks the tokens of this step
\* that lie in one of its ranges, padded with FALSE to the longest slot.
EmbRanges == {<<s, e>> \in (0..MaxEmbPos) \X (0..MaxEmbPos) : s < e}

RangeListsOf(k) ==
    {rs \in [1..k -> EmbRanges] : \A j \in 1..(k - 1) : rs[j][2] <= rs[j + 1][1]}

RangeLists == UNION {RangeListsOf(k) : k \in 0..MaxEmb}

\* every way to give B slots range lists holding at most budget embeddings
RECURSIVE BatchRangeLists(_, _)
BatchRangeLists(B, budget) ==
    IF B = 0 THEN {<<>>}
    ELSE UNION {{<<rl>> \o rest : rest \in BatchRangeLists(B - 1, budget - Len(rl))}
                : rl \in {x \in RangeLists : Len(x) <= budget}}

Embedding(i, k, range) == [r \in 1..(range[2] - range[1]) |-> <<i, k, r - 1>>]

VisionOf(seq, hist, rls, has) ==
    VisionModelInputs(
        hist,
        IF has
        THEN Some([i \in 1..Len(rls) |->
                      [k \in 1..Len(rls[i]) |-> Embedding(i, k, rls[i][k])]])
        ELSE None,
        rls,
        [i \in 1..Len(seq) |->
            [p \in 1..MaxSeqOf(seq) |->
                /\ p <= seq[i]
                /\ \E k \in 1..Len(rls[i]) :
                       /\ rls[i][k][1] <= hist[i] + p - 1
                       /\ hist[i] + p - 1 < rls[i][k][2]]])

\* One slot, or two: what batch order needs
VisionBatchSizes == {1, 2}

\* The case the design gives: history 5, step length 3, one embedding over
\* the tokens [4, 10)
DesignExample ==
    SchedulerBatch(<<3>>, <<5>>, FALSE, 0, None, None, None,
                   Some(VisionOf(<<3>>, <<5>>, <<<<<<4, 10>>>>>>, TRUE)))

InitVision ==
    /\ \/ \E B \in VisionBatchSizes :
          \E seq \in [1..B -> 1..MaxVisSeq], hist \in [1..B -> 0..MaxVisHist],
             rls \in BatchRangeLists(B, MaxEmb), has \in BOOLEAN :
              /\ has \/ \A i \in 1..B : rls[i] = <<>>
              /\ inputs = SchedulerBatch(seq, hist, FALSE, 0, None, None, None,
                                         Some(VisionOf(seq, hist, rls, has)))
       \/ inputs = DesignExample
    /\ inputs0 = inputs
    /\ InitIdle

InitManager ==
    /\ inputs = None
    /\ inputs0 = None
    /\ InitIdle

\* ---------------------------------------------------------- specifications
Next ==
    \/ \E ids \in NewTokenGrids(Len(inputs.seq_length)) : Update(ids)
    \/ \E split_size \in 1..MaxSplit, block_size \in 1..MaxBlock :
           Split(split_size, block_size)
    \/ \E cache_config \in CacheConfigs : New(cache_config)

NextBuild == New(None)

NextManager ==
    \/ \E c \in 1..NumCtx : Enter(c)
    \/ ExitNormal
    \/ ExitFail

Spec == InitInputs /\ [][Next]_vars
SpecAdapter == InitAdapter /\ [][NextBuild]_vars
SpecVision == InitVision /\ [][NextBuild]_vars
SpecManager == InitManager /\ [][NextManager]_vars

\* ------------------------------------------------------------------ claims
\* C1: for a manager used one scope at a time, entering context(ctx) makes
\* current_context() return ctx, and when the scope exits, whether its body
\* completed or raised, current_context() returns None.
C1_ClearedOnEveryExit ==
    [][/\ (Len(scopes) = 0 /\ Len(scopes') = 1)
            => CurrentContext' = Some(scopes'[1])
       /\ (Len(scopes) = 1 /\ Len(scopes') = 0)
            => CurrentContext' = None]_vars

\* C10: nested installation is forbidden: at most one scope is ever active,
\* and while it is, current_context() returns its context.
C10_NoNestedInstallation ==
    /\ Len(scopes) <= 1
    /\ Len(scopes) = 1 => CurrentContext = Some(scopes[1])

\* The windows [0,S), [S,2S), ... of a prefill of N tokens
NumChunks(N, S) == (N + S - 1) \div S
ChunkStart(k, S) == (k - 1) * S
ChunkEnd(k, N, S) == IF k * S < N THEN k * S ELSE N

\* C2: splitting a single-slot prefill of N > S tokens returns the chunks of
\* the windows [0,S), [S,2S), ..., ending at N: together exactly the tokens
\* [0,N) in order, each chunk with 1 <= seq_length <= S and max_q_seq_length
\* equal to it, the first chunk with the original history_lengths and
\* max_history_length, every later one with the previous chunk's values plus
\* the previous chunk's seq_length.
C2_ChunkCoverage ==
    (/\ out.op = "split"
     /\ ~out.res.raised
     /\ Len(inputs.seq_length) = 1
     /\ Numel(inputs.input_ids) = inputs.seq_length[1]
     /\ inputs.seq_length[1] > out.args.split_size)
    => LET N == inputs.seq_length[1]
           S == out.args.split_size
           items == out.res.items
           tokens == inputs.input_ids.v[1]
       IN /\ out.res.is_list
          /\ Len(items) = NumChunks(N, S)
          /\ Cat([k \in 1..Len(items) |-> items[k].input_ids.v[1]]) = tokens
          /\ \A k \in 1..Len(items) :
                /\ items[k].input_ids.v =
                       <<SubSeq(tokens, ChunkStart(k, S) + 1, ChunkEnd(k, N, S))>>
                /\ Len(items[k].seq_length) = 1
                /\ items[k].seq_length[1] = ChunkEnd(k, N, S) - ChunkStart(k, S)
                /\ 1 <= items[k].seq_length[1]
                /\ items[k].seq_length[1] <= S
                /\ items[k].max_q_seq_length = items[k].seq_length[1]
          /\ items[1].history_lengths = inputs.history_lengths
          /\ items[1].max_history_length = inputs.max_history_length
          /\ \A k \in 2..Len(items) :
                /\ items[k].history_lengths =
                       <<items[k - 1].history_lengths[1] + items[k - 1].seq_length[1]>>
                /\ items[k].max_history_length =
                       items[k - 1].max_history_length + items[k - 1].seq_length[1]

\* C2 witness: 5 tokens behind a history of 2 were split by 2 into 3 chunks,
\* the last one short
C2_Witness ==
    /\ out.op = "split"
    /\ ~out.res.raised
    /\ inputs.seq_length = <<5>>
    /\ inputs.history_lengths = <<2>>
    /\ out.args.split_size = 2
    /\ Len(out.res.items) = 3
    /\ out.res.items[3].seq_length = <<1>>
    /\ out.res.items[3].history_lengths = <<6>>

\* C3: splitting a single-slot input of at most split_size tokens returns a
\* one-element list whose element equals the input in every field.
C3_SmallInputIsOneElementList ==
    (/\ out.op = "split"
     /\ ~out.res.raised
     /\ Numel(inputs.input_ids) <= out.args.split_size)
    => /\ out.res.is_list
       /\ Len(out.res.items) = 1
       /\ out.res.items[1] = inputs

\* C4: on a decoding instance every update succeeds, so that after k updates
\* history_lengths is the original plus k in every slot, max_history_length
\* the original plus k and still the maximum of history_lengths, the token
\* grid holds the tokens last supplied (the supplied grid itself when that
\* is 2-D), and seq_length, block_offsets, max_q_seq_length, is_decoding and
\* num_ignored_history are the original ones; on a prefill instance every
\* update fails and the instance stays as it was.
C4_UpdateContract ==
    /\ inputs0.is_decoding =>
        /\ inputs.history_lengths =
               [i \in 1..Len(inputs0.history_lengths) |->
                   inputs0.history_lengths[i] + nupdates]
        /\ inputs.max_history_length = inputs0.max_history_length + nupdates
        /\ inputs.max_history_length = MaxSeqOf(inputs.history_lengths)
        /\ inputs.seq_length = inputs0.seq_length
        /\ inputs.block_offsets = inputs0.block_offsets
        /\ inputs.max_q_seq_length = inputs0.max_q_seq_length
        /\ inputs.is_decoding = inputs0.is_decoding
        /\ inputs.num_ignored_history = inputs0.num_ignored_history
        /\ out.op = "update" =>
            /\ ~out.res.raised
            /\ inputs.input_ids.dim = 2
            /\ Cat(inputs.input_ids.v) = Cat(out.args.input_ids.v)
            /\ out.args.input_ids.dim = 2 => inputs.input_ids = out.args.input_ids
    /\ ~inputs0.is_decoding =>
        /\ inputs = inputs0
        /\ nupdates = 0
        /\ out.op = "update" => out.res.raised

\* C4 witness: the second update of a two-slot decoding batch, given a 1-D
\* tensor of new tokens
C4_Witness ==
    /\ out.op = "update"
    /\ ~out.res.raised
    /\ nupdates = 2
    /\ Len(inputs.seq_length) = 2
    /\ out.args.input_ids.dim = 1
    /\ inputs0.history_lengths = <<1, 2>>
    /\ inputs.history_lengths = <<3, 4>>

\* the exclusive prefix sum of a sequence at index i
Before(s, i) == SumSeq(SubSeq(s, 1, i - 1))

\* C5: the context of a prefill batch has the packed position_ids of length
\* sum(seq_length) in which slot i owns the indices q_start_loc[i] =
\* seq_length[0] + ... + seq_length[i-1] onwards and holds there
\* history_lengths[i], history_lengths[i] + 1, ..., one per token of the
\* slot: no padded position appears.
C5_PrefillPositionIds ==
    (out.op = "new" /\ ~inputs.is_decoding)
    => LET seq == inputs.seq_length
           pos == out.res.position_ids[1]
       IN /\ Len(out.res.position_ids) = 1
          /\ Len(pos) = SumSeq(seq)
          /\ \A i \in 1..Len(seq) :
                /\ out.res.q_start_loc[i] = Before(seq, i)
                /\ \A j \in 0..(seq[i] - 1) :
                       pos[Before(seq, i) + j + 1] = inputs.history_lengths[i] + j

\* C5 witness: a two-slot prefill whose first slot is shorter than the
\* second, so that its row of the position grid has a padded column
C5_Witness ==
    /\ out.op = "new"
    /\ ~inputs.is_decoding
    /\ inputs.seq_length = <<1, 2>>
    /\ inputs.history_lengths = <<2, 0>>
    /\ out.res.position_ids = <<<<2, 0, 1>>>>

\* C6: the context of a decoding batch of B slots has the all-ones
\* attention_mask of shape [B, 1], q_start_loc[i] = i, and packed
\* position_ids equal to history_lengths.
C6_DecodeContext ==
    (out.op = "new" /\ inputs.is_decoding)
    => LET B == Len(inputs.seq_length)
       IN /\ out.res.attention_mask = [i \in 1..B |-> <<1>>]
          /\ out.res.q_start_loc = [i \in 1..B |-> i - 1]
          /\ out.res.position_ids = <<inputs.history_lengths>>
          /\ Len(out.res.position_ids[1]) = B

\* C6 witness: the context of a two-slot decoding batch after one update
C6_Witness ==
    /\ out.op = "new"
    /\ inputs.is_decoding
    /\ nupdates = 1
    /\ inputs.history_lengths = <<3, 1>>
    /\ out.res.position_ids = <<<<3, 1>>>>

\* C7: in every context kv_seq_length[i] is seq_length[i] +
\* history_lengths[i] without a cache config or with window_size 0, and that
\* less num_ignored_history[i] with window_size > 0; max_kv_seq_length is
\* max_q_seq_length + max_history_length; and building contexts has left
\* seq_length, history_lengths and num_ignored_history of the input as the
\* scheduler and the updates made them.
C7_KvSeqLength ==
    (out.op = "new")
    => LET w == WindowSize(out.args.cache_config)
           B == Len(inputs.seq_length)
       IN /\ w = 0 =>
                out.res.kv_seq_length =
                    [i \in 1..B |-> inputs.seq_length[i] + inputs.history_lengths[i]]
          /\ w > 0 =>
                out.res.kv_seq_length =
                    [i \in 1..B |-> inputs.seq_length[i] + inputs.history_lengths[i]
                                        - inputs.num_ignored_history[i]]
          /\ out.res.max_kv_seq_length =
                 inputs.max_q_seq_length + inputs.max_history_length
          /\ inputs.seq_length = inputs0.seq_length
          /\ inputs.num_ignored_history = inputs0.num_ignored_history
          /\ inputs.history_lengths =
                 [i \in 1..B |-> inputs0.history_lengths[i] + nupdates]

\* C7 witness: a context built with a sliding window for a batch that
\* ignores part of a slot's history
C7_Witness ==
    /\ out.op = "new"
    /\ WindowSize(out.args.cache_config) > 0
    /\ inputs.seq_length = <<2, 1>>
    /\ inputs.history_lengths = <<2, 0>>
    /\ inputs.num_ignored_history = <<1, 0>>
    /\ out.res.kv_seq_length = <<3, 1>>

\* The rows of embedding k of slot i that lie in the slot's window
\* [h, h + l): its rows [max(s,h) - s, min(e,h+l) - s)
RowsInWindow(i, k, range, h, l) ==
    LET lo == Max(range[1], h) - range[1]
        hi == Min(range[2], h + l) - range[1]
    IN IF lo < hi THEN [r \in 1..(hi - lo) |-> <<i, k, lo + r - 1>>] ELSE <<>>

\* C8: the embeddings of a context are, in batch order and then range order,
\* the rows of every embedding that lie in its slot's window, and (None,
\* None) when there is no such row or no embedding at all.
C8_VisionAlignment ==
    (out.op = "new")
    => LET vis == inputs.vision_inputs[1]
           B == Len(inputs.seq_length)
           rows == Cat([i \in 1..B |->
                       Cat([k \in 1..Len(vis.input_embedding_ranges[i]) |->
                           RowsInWindow(i, k, vis.input_embedding_ranges[i][k],
                                        inputs.history_lengths[i],
                                        inputs.seq_length[i])])])
       IN IF vis.input_embeddings = None \/ rows = <<>>
          THEN /\ out.res.input_embeddings = None
               /\ out.res.input_embedding_indexing = None
          ELSE out.res.input_embeddings = Some(rows)

\* C8 witness: the design's example, history 5, step length 3 and an
\* embedding over [4, 10), of which rows 1, 2 and 3 are selected
C8_Witness ==
    /\ out.op = "new"
    /\ inputs.history_lengths = <<5>>
    /\ inputs.seq_length = <<3>>
    /\ inputs.vision_inputs[1].input_embedding_ranges = <<<<<<4, 10>>>>>>
    /\ out.res.input_embeddings = Some(<<<<1, 1, 1>>, <<1, 1, 2>>, <<1, 1, 3>>>>)

\* C9: the adapter_params of a context hold one AdapterInfo per target
\* module name, each over the same A adapters and with that single target;
\* their ranks and scalings, put side by side in target_modules order, are
\* the original matrices, and the rank_offsets of target idx are the columns
\* [idx * max_rank, idx * max_rank + max_rank) of the original table, with
\* max_rank the global one.
C9_SplitByTargetsRoundTrip ==
    (out.op = "new" /\ inputs.adapter_info # None)
    => LET info == inputs.adapter_info[1]
           A == Len(info.ranks)
           T == Len(info.target_modules)
           d == out.res.adapter_params[1]
           part(t) == d[info.target_modules[t]]
       IN /\ out.res.adapter_params # None
          /\ DOMAIN d = {info.target_modules[t] : t \in 1..T}
          /\ Cardinality(DOMAIN d) = T
          /\ \A t \in 1..T :
                /\ part(t).target_modules = <<info.target_modules[t]>>
                /\ Len(part(t).ranks) = A
                /\ Len(part(t).scalings) = A
                /\ Len(part(t).rank_offsets) = A
                /\ \A a \in 1..A :
                       part(t).rank_offsets[a] =
                           SubSeq(info.rank_offsets[a],
                                  (t - 1) * info.max_rank + 1,
                                  (t - 1) * info.max_rank + info.max_rank)
          /\ [a \in 1..A |-> [t \in 1..T |-> part(t).ranks[a]]] = info.ranks
          /\ [a \in 1..A |-> [t \in 1..T |-> part(t).scalings[a]]] = info.scalings

\* C9 witness: two adapters over two target modules with max_rank 2, where
\* no adapter reaches rank 2 on the first module
C9_Witness ==
    /\ out.op = "new"
    /\ inputs.adapter_info # None
    /\ inputs.adapter_info[1].ranks = <<<<1, 2>>, <<1, 1>>>>
    /\ inputs.adapter_info[1].max_rank = 2
    /\ out.res.adapter_params # None
    /\ out.res.adapter_params[1]["k_proj"].rank_offsets = <<<<102, 103>>, <<202, 203>>>>

====
